---- MODULE Spec2Model ----
(***************************************************************************)
(* Pricing engine of src/revamp/code-refactor.js (normalizeWeight,         *)
(* normalizePrice, preciseRound, createDatabase, handleCalculate,          *)
(* handleQuery, summaryApi) and the DatabaseManager of src/README.md.      *)
(*                                                                         *)
(* Numbers.  A JavaScript number is modelled as an exact rational          *)
(* [k |-> "num", n, d] in lowest terms (d > 0), or NaN.  The arithmetic    *)
(* below is exact: the binary rounding of IEEE doubles is not modelled.    *)
(* Strings.  A JavaScript string is a sequence of one-character strings;   *)
(* the value undefined, where a string is expected, is the token           *)
(* UndefinedTok, which no split can produce.                               *)
(***************************************************************************)
EXTENDS Integers, Sequences, FiniteSets, TLC

VARIABLES
    pc,          \* position of the harness that is running
    value,       \* preciseRound: the argument
    rounded,     \* preciseRound(value)
    rerounded,   \* preciseRound(preciseRound(value))
    database,    \* code-refactor.js: database.items, keyed by property name
    request,     \* the request the caller encoded into largeData.datas
    largeData,   \* the envelope {action, datas} given to summaryApi
    result,      \* what summaryApi returned (or that it threw)
    invoked,     \* the handler summaryApi called, "none" before / without one
    probe,       \* an earlier call: its envelope and its result
    items,       \* DatabaseManager.items
    added,       \* every item given to addItem so far, in order
    got          \* the last getItem: the id asked for and the value returned

vars == <<pc, value, rounded, rerounded, database, request, largeData, result,
          invoked, probe, items, added, got>>

----------------------------------------------------------------------------
(* JavaScript numbers *)

Abs(i) == IF i < 0 THEN -i ELSE i

RECURSIVE GCD(_, _)
GCD(a, b) == IF b = 0 THEN a ELSE GCD(b, a % b)

\* the rational n/d (d > 0) in lowest terms
Num(n, d) ==
    LET g == GCD(Abs(n), d)
    IN  [k |-> "num", n |-> n \div g, d |-> d \div g]

NaN == [k |-> "nan", n |-> 0, d |-> 1]

IsNum(a) == a.k = "num"

\* a + b
Add(a, b) ==
    IF ~IsNum(a) \/ ~IsNum(b) THEN NaN
    ELSE LET g == GCD(a.d, b.d)
         IN  Num(a.n * (b.d \div g) + b.n * (a.d \div g), a.d * (b.d \div g))

\* a * b
Mul(a, b) ==
    IF ~IsNum(a) \/ ~IsNum(b) THEN NaN
    ELSE LET g1 == GCD(Abs(a.n), b.d)
             g2 == GCD(Abs(b.n), a.d)
         IN  Num((a.n \div g1) * (b.n \div g2), (a.d \div g2) * (b.d \div g1))

\* a / b, for the positive constants b of the program
Div(a, b) ==
    IF ~IsNum(a) \/ ~IsNum(b) THEN NaN
    ELSE Mul(a, Num(b.d, b.n))

\* Math.floor(a)
MathFloor(a) == IF ~IsNum(a) THEN NaN ELSE Num(a.n \div a.d, 1)

\* Math.round(a): the nearest integer, a half rounding towards +Infinity
MathRound(a) ==
    IF ~IsNum(a) THEN NaN
    ELSE Num((a.n \div a.d) + (IF 2 * (a.n % a.d) >= a.d THEN 1 ELSE 0), 1)

\* a % b on integers a, b > 0: the remainder has the sign of the dividend
Rem(a, b) ==
    IF ~IsNum(a) \/ ~IsNum(b) THEN NaN
    ELSE IF a.n >= 0 THEN Num(a.n % b.n, 1) ELSE Num(-((-a.n) % b.n), 1)

\* a >= i and a <= i for an integer literal i; false on NaN
Ge(a, i) == IsNum(a) /\ a.n >= i * a.d
Le(a, i) == IsNum(a) /\ a.n <= i * a.d

----------------------------------------------------------------------------
(* UnitConverter *)

\* a faulty variant: the 8-9 branch goes up one cent, not to the next decile
preciseRoundNextCent(value_) ==
    LET cents == MathRound(Mul(value_, Num(100, 1)))
        lastDigit == Rem(cents, Num(10, 1))
    IN  IF Ge(lastDigit, 1) /\ Le(lastDigit, 2)
          THEN Div(MathFloor(Div(cents, Num(10, 1))), Num(10, 1))
        ELSE IF Ge(lastDigit, 3) /\ Le(lastDigit, 4)
          THEN Div(Add(MathFloor(Div(cents, Num(10, 1))), Num(1, 2)), Num(10, 1))
        ELSE IF Ge(lastDigit, 6) /\ Le(lastDigit, 7)
          THEN Div(Add(MathFloor(Div(cents, Num(10, 1))), Num(1, 2)), Num(10, 1))
        ELSE IF Ge(lastDigit, 8) /\ Le(lastDigit, 9)
          THEN Div(Add(cents, Num(1, 1)), Num(100, 1))
        ELSE Div(cents, Num(100, 1))

\* preciseRound: the digit table on cents = Math.round(value * 100)
preciseRound(value_) ==
    LET cents == MathRound(Mul(value_, Num(100, 1)))
        lastDigit == Rem(cents, Num(10, 1))
    IN  IF Ge(lastDigit, 1) /\ Le(lastDigit, 2)
          THEN Div(MathFloor(Div(cents, Num(10, 1))), Num(10, 1))
        ELSE IF Ge(lastDigit, 3) /\ Le(lastDigit, 4)
          THEN Div(Add(MathFloor(Div(cents, Num(10, 1))), Num(1, 2)), Num(10, 1))
        ELSE IF Ge(lastDigit, 6) /\ Le(lastDigit, 7)
          THEN Div(Add(MathFloor(Div(cents, Num(10, 1))), Num(1, 2)), Num(10, 1))
        ELSE IF Ge(lastDigit, 8) /\ Le(lastDigit, 9)
          THEN Div(Add(MathFloor(Div(cents, Num(10, 1))), Num(1, 1)), Num(10, 1))
        ELSE Div(cents, Num(100, 1))

\* a variant that rejects any unit other than "kg" and "g"
normalizeWeightStrict(value_, unit) ==
    IF unit = <<"g">> THEN Div(value_, Num(1000, 1))
    ELSE IF unit = <<"k", "g">> THEN value_
    ELSE NaN

\* normalizeWeight: grams to kilograms
normalizeWeight(value_, unit) ==
    IF unit = <<"g">> THEN Div(value_, Num(1000, 1)) ELSE value_

\* a faulty variant: scales the price the way a weight is scaled
normalizePriceDivides(price, unit) ==
    IF unit = <<"g">> THEN Div(price, Num(1000, 1)) ELSE price

\* normalizePrice: a price per gram to a price per kilogram
normalizePrice(price, unit) ==
    IF unit = <<"g">> THEN Mul(price, Num(1000, 1)) ELSE price

----------------------------------------------------------------------------
(* JavaScript strings *)

\* undefined, where a string is expected (a missing array element)
UndefinedTok == <<"undefined">>

Digits == <<"0", "1", "2", "3", "4", "5", "6", "7", "8", "9">>

IsDigit(c) == \E i \in 1..10 : Digits[i] = c

DigitVal(c) == (CHOOSE i \in 1..10 : Digits[i] = c) - 1

\* the property name of the numeric key i >= 0: its decimal digits
RECURSIVE propertyKey(_)
propertyKey(i) ==
    IF i < 10 THEN <<Digits[i + 1]>>
    ELSE propertyKey(i \div 10) \o <<Digits[(i % 10) + 1]>>

\* s.split(sep) for a one-character separator: "" splits into [""]
RECURSIVE split(_, _)
split(s, sep) ==
    IF \A i \in 1..Len(s) : s[i] # sep THEN <<s>>
    ELSE LET i == CHOOSE j \in 1..Len(s) :
                      s[j] = sep /\ \A h \in 1..(j - 1) : s[h] # sep
         IN  <<SubSeq(s, 1, i - 1)>> \o split(SubSeq(s, i + 1, Len(s)), sep)

\* arr[i - 1] of a JavaScript array: undefined past its end
At(arr, i) == IF i <= Len(arr) THEN arr[i] ELSE UndefinedTok

RECURSIVE DigitsValue(_)
DigitsValue(s) ==
    IF s = <<>> THEN 0
    ELSE 10 * DigitsValue(SubSeq(s, 1, Len(s) - 1)) + DigitVal(s[Len(s)])

RECURSIVE Pow10(_)
Pow10(e) == IF e = 0 THEN 1 ELSE 10 * Pow10(e - 1)

AllDigits(s) == \A i \in 1..Len(s) : IsDigit(s[i])

\* Number(s) on an unsigned decimal literal: digits, digits.digits, digits., .digits
UnsignedNumber(s) ==
    LET parts == split(s, ".")
        int == parts[1]
        frac == IF Len(parts) = 2 THEN parts[2] ELSE <<>>
    IN  IF Len(parts) > 2 \/ ~AllDigits(int) \/ ~AllDigits(frac)
           \/ (int = <<>> /\ frac = <<>>)
          THEN NaN
        ELSE Num(DigitsValue(int) * Pow10(Len(frac)) + DigitsValue(frac),
                 Pow10(Len(frac)))

\* Number(s): undefined is NaN, "" is 0, a signed decimal literal is its value,
\* any other text over the alphabet of the requests is NaN
Number(s) ==
    IF s = UndefinedTok THEN NaN
    ELSE IF s = <<>> THEN Num(0, 1)
    ELSE IF s[1] = "-" THEN Mul(Num(-1, 1), UnsignedNumber(Tail(s)))
    ELSE IF s[1] = "+" THEN UnsignedNumber(Tail(s))
    ELSE UnsignedNumber(s)

----------------------------------------------------------------------------
(* Catalog of code-refactor.js *)

Item(id, name, unitPrice, unit) ==
    [id |-> id, name |-> name, unitPrice |-> unitPrice, unit |-> unit]

\* database.items[key] when the object has no such property
UndefinedItem == Item(-1, "undefined", NaN, UndefinedTok)

KG == <<"k", "g">>
GRAM == <<"g">>

\* the items array of createDatabase
sampleItems ==
    << Item(1, "item1", Num(145, 100), KG),
       Item(2, "item2", Num(123, 100), KG),
       Item(3, "item3", Num(235, 100), GRAM),
       Item(4, "item4", Num(456, 100), KG),
       Item(5, "item5", Num(134, 100), KG),
       Item(6, "item6", Num(567, 100), KG),
       Item(7, "item7", Num(234, 100), GRAM),
       Item(8, "item8", Num(345, 100), KG),
       Item(9, "item9", Num(91, 10), KG),
       Item(10, "item10", Num(1, 1), GRAM),
       Item(11, "item11", Num(213, 100), GRAM),
       Item(12, "item12", Num(264, 100), KG),
       Item(13, "item13", Num(285, 100), KG),
       Item(14, "item14", Num(271, 100), KG),
       Item(15, "item15", Num(149, 100), KG),
       Item(16, "item16", Num(178, 100), GRAM),
       Item(17, "item17", Num(159, 100), KG),
       Item(18, "item18", Num(355, 100), GRAM),
       Item(19, "item19", Num(405, 100), KG) >>

\* Object.fromEntries(list.map((item) => [item.id, item])): a later entry
\* replaces an earlier one with the same key
RECURSIVE fromEntries(_)
fromEntries(list) ==
    IF list = <<>> THEN [key \in {} |-> UndefinedItem]
    ELSE LET last == list[Len(list)]
         IN  (propertyKey(last.id) :> last) @@ fromEntries(SubSeq(list, 1, Len(list) - 1))

createDatabase == [items |-> fromEntries(sampleItems)]

\* a variant that answers a missing key with a free item instead of undefined
itemAtOrFree(db, key) ==
    IF key \in DOMAIN db THEN db[key] ELSE Item(0, "", Num(0, 1), KG)

\* db[key]: the property, or undefined
itemAt(db, key) == IF key \in DOMAIN db THEN db[key] ELSE UndefinedItem

----------------------------------------------------------------------------
(* What a call returns *)

NumberResult(x) == [kind |-> "number", num |-> x, arr |-> <<>>]
ArrayResult(a) == [kind |-> "array", num |-> NaN, arr |-> a]
Undefined == [kind |-> "undefined", num |-> NaN, arr |-> <<>>]
\* reading a property of undefined
TypeError == [kind |-> "throw", num |-> NaN, arr |-> <<>>]
NotCalled == [kind |-> "none", num |-> NaN, arr |-> <<>>]

\* a handler's outcome: the value returned (or the throw) and database.items
\* as the handler leaves it
Outcome(ret, db) == [ret |-> ret, database |-> db]

----------------------------------------------------------------------------
(* PricingEngine *)

Thrown == [k |-> "throw", n |-> 0, d |-> 1]

\* items.reduce((sum, [id, quantity, unit]) => ..., 0) from entry i on
RECURSIVE reduce(_, _, _, _)
reduce(db, entries, i, sum) ==
    IF i > Len(entries) THEN sum
    ELSE LET id == At(entries[i], 1)
             quantity == At(entries[i], 2)
             unit == At(entries[i], 3)
             item == itemAt(db, id)
             normalizedQuantity == normalizeWeight(Number(quantity), unit)
         IN  IF item = UndefinedItem THEN Thrown
             ELSE LET normalizedPrice == normalizePrice(item.unitPrice, item.unit)
                  IN  reduce(db, entries, i + 1,
                             Add(sum, Mul(normalizedPrice, normalizedQuantity)))

\* handleCalculate: split, reduce, preciseRound; it assigns nothing to database
handleCalculate(db, datasString) ==
    LET lines == split(datasString, ";")
        entries == [i \in 1..Len(lines) |-> split(lines[i], ",")]
        totalPrice == reduce(db, entries, 1, Num(0, 1))
    IN  IF totalPrice = Thrown THEN Outcome(TypeError, db)
        ELSE Outcome(NumberResult(preciseRound(totalPrice)), db)

\* ids.map((id) => ({itemId: Number(id), kgPrice: ...}))
queryMap(db, ids) ==
    [i \in 1..Len(ids) |->
        LET item == itemAt(db, ids[i])
        IN  [itemId |-> Number(ids[i]),
             kgPrice |-> normalizePrice(item.unitPrice, item.unit)]]

\* the ids without their repetitions, in order of first occurrence
RECURSIVE unique(_)
unique(ids) ==
    IF ids = <<>> THEN <<>>
    ELSE LET front == unique(SubSeq(ids, 1, Len(ids) - 1))
             last == ids[Len(ids)]
         IN  IF \E i \in 1..Len(front) : front[i] = last THEN front
             ELSE Append(front, last)

\* a faulty variant: answers each id once
handleQueryUnique(db, datasString) ==
    LET ids == unique(split(datasString, ","))
    IN  IF \E i \in 1..Len(ids) : itemAt(db, ids[i]) = UndefinedItem
          THEN Outcome(TypeError, db)
        ELSE Outcome(ArrayResult(queryMap(db, ids)), db)

\* a faulty variant: writes the per-kilogram price back into the item
handleQueryStoresKgPrice(db, datasString) ==
    LET ids == split(datasString, ",")
        seen == {ids[i] : i \in 1..Len(ids)}
        stored == [key \in DOMAIN db |->
                     IF key \in seen
                       THEN [db[key] EXCEPT
                               !.unitPrice = normalizePrice(db[key].unitPrice, db[key].unit)]
                     ELSE db[key]]
    IN  IF \E i \in 1..Len(ids) : itemAt(db, ids[i]) = UndefinedItem
          THEN Outcome(TypeError, db)
        ELSE Outcome(ArrayResult(queryMap(db, ids)), stored)

\* handleQuery: the first missing id throws, else one pair per id
handleQuery(db, datasString) ==
    LET ids == split(datasString, ",")
    IN  IF \E i \in 1..Len(ids) : itemAt(db, ids[i]) = UndefinedItem
          THEN Outcome(TypeError, db)
        ELSE Outcome(ArrayResult(queryMap(db, ids)), db)

----------------------------------------------------------------------------
(* Dispatcher *)

\* the handler the switch of summaryApi selects
handlerOf(action) ==
    CASE action = "calculate" -> "handleCalculate"
      [] action = "query" -> "handleQuery"
      [] OTHER -> "none"

\* a faulty variant: every action but "calculate" is taken as a query
summaryApiDefaultsToQuery(db, envelope) ==
    CASE envelope.action = "calculate" -> handleCalculate(db, envelope.datas)
      [] OTHER -> handleQuery(db, envelope.datas)

\* summaryApi: the switch on largeData.action
summaryApi(db, envelope) ==
    CASE envelope.action = "calculate" -> handleCalculate(db, envelope.datas)
      [] envelope.action = "query" -> handleQuery(db, envelope.datas)
      [] OTHER -> Outcome(Undefined, db)

----------------------------------------------------------------------------
(* Requests: what a caller encodes into largeData.datas *)

MaxEntries == 2   \* line entries of a generated calculate payload
MaxIds == 3       \* ids of a generated query payload

\* an id as the caller writes it: its text, the integer it denotes, and whether
\* the text is the plain decimal form (the form of the Catalog's keys)
IdRow(tok, id, plain) == [tok |-> tok, id |-> id, plain |-> plain]

\* a quantity as the caller writes it: its text, and the number it denotes
\* (NaN for text that is no number), and whether it follows the grammar
QtyRow(tok, val, wellFormed) == [tok |-> tok, val |-> val, wellFormed |-> wellFormed]

idRows ==
    { IdRow(<<"1">>, 1, TRUE), IdRow(<<"2">>, 2, TRUE), IdRow(<<"3">>, 3, TRUE),
      IdRow(<<"4">>, 4, TRUE), IdRow(<<"9">>, 9, TRUE),
      IdRow(<<"1", "2">>, 12, TRUE), IdRow(<<"1", "6">>, 16, TRUE),
      IdRow(<<"0">>, 0, TRUE), IdRow(<<"2", "0">>, 20, TRUE),
      IdRow(<<"0", "1">>, 1, FALSE) }

qtyRows ==
    { QtyRow(<<"1">>, Num(1, 1), TRUE), QtyRow(<<"2">>, Num(2, 1), TRUE),
      QtyRow(<<"4">>, Num(4, 1), TRUE), QtyRow(<<"1", "0">>, Num(10, 1), TRUE),
      QtyRow(<<"4", "0", "0">>, Num(400, 1), TRUE),
      QtyRow(<<"0", ".", "1", "5">>, Num(15, 100), TRUE),
      QtyRow(<<"a", "b">>, NaN, FALSE), QtyRow(<<>>, Num(0, 1), FALSE) }

\* the third field: kg, g, other text, empty text, or no third field at all
unitToks == { KG, GRAM, <<"G">>, <<"l", "b">>, <<>>, UndefinedTok }

NoQty == QtyRow(UndefinedTok, NaN, FALSE)

Entry(id, quantity, unit) == [id |-> id, quantity |-> quantity, unit |-> unit]

SeqsUpTo(S, lo, hi) == UNION { [1..n -> S] : n \in lo..hi }

gridEntries == { Entry(i, q, u) : i \in idRows, q \in qtyRows, u \in unitToks }

coreEntries ==
    { Entry(i, q, u) :
        i \in { r \in idRows : r.tok \in { <<"1">>, <<"3">>, <<"2", "0">> } },
        q \in { r \in qtyRows : r.tok \in { <<"2">>, <<"1", "0">> } },
        u \in { KG, GRAM, <<"l", "b">> } }

idRow(tok) == CHOOSE r \in idRows : r.tok = tok
qtyRow(tok) == CHOOSE r \in qtyRows : r.tok = tok

\* the requests of testDatas
test1 ==
    << Entry(idRow(<<"1">>), qtyRow(<<"1">>), KG),
       Entry(idRow(<<"2">>), qtyRow(<<"2">>), KG),
       Entry(idRow(<<"3">>), qtyRow(<<"0", ".", "1", "5">>), KG),
       Entry(idRow(<<"4">>), qtyRow(<<"4">>), KG) >>
test2 ==
    << Entry(idRow(<<"9">>), qtyRow(<<"1", "0">>), KG),
       Entry(idRow(<<"1", "2">>), qtyRow(<<"1">>), KG),
       Entry(idRow(<<"1", "6">>), qtyRow(<<"4", "0", "0">>), GRAM) >>

calculateRequests ==
    { <<>>, test1, test2 } \cup { <<e>> : e \in gridEntries }
        \cup SeqsUpTo(coreEntries, 2, MaxEntries)

queryRequests ==
    SeqsUpTo({ Entry(i, NoQty, UndefinedTok) : i \in idRows }, 0, MaxIds)

RECURSIVE join(_, _)
join(parts, sep) ==
    IF Len(parts) = 0 THEN <<>>
    ELSE IF Len(parts) = 1 THEN parts[1]
    ELSE parts[1] \o <<sep>> \o join(Tail(parts), sep)

\* "id,quantity,unit" entries joined by ";" (a missing unit leaves two fields)
encodeCalculate(entries) ==
    join([i \in 1..Len(entries) |->
            entries[i].id.tok \o <<",">> \o entries[i].quantity.tok
              \o (IF entries[i].unit = UndefinedTok THEN <<>>
                  ELSE <<",">> \o entries[i].unit)], ";")

\* ids joined by ","
encodeQuery(entries) == join([i \in 1..Len(entries) |-> entries[i].id.tok], ",")

Request(format, entries) == [format |-> format, entries |-> entries]

encode(req) ==
    IF req.format = "calculate" THEN encodeCalculate(req.entries)
    ELSE encodeQuery(req.entries)

otherActions == { "delete", "Calculate", "" }

\* the calls of the harness: the action tag and the request behind datas
calls ==
    { [action |-> "calculate", request |-> Request("calculate", r)] :
        r \in calculateRequests }
      \cup { [action |-> "query", request |-> Request("query", r)] :
        r \in queryRequests }
      \cup { [action |-> a, request |-> Request("calculate", r)] :
        a \in otherActions, r \in { <<>>, test1 } \cup { <<e>> : e \in coreEntries } }
      \cup { [action |-> a, request |-> Request("query", r)] :
        a \in otherActions, r \in { q \in queryRequests : Len(q) = 1 } }

Envelope(call) == [action |-> call.action, datas |-> encode(call.request)]

NoEnvelope == [action |-> "", datas |-> UndefinedTok]
NoRequest == Request("none", <<>>)
NoProbe == [envelope |-> NoEnvelope, result |-> NotCalled]
NoGet == [id |-> -1, ret |-> UndefinedItem]

----------------------------------------------------------------------------
(* One call of summaryApi on the sample database *)

Init ==
    /\ pc = "ready"
    /\ \E call \in calls :
         /\ request = call.request
         /\ largeData = Envelope(call)
    /\ database = createDatabase.items
    /\ result = NotCalled
    /\ invoked = "none"
    /\ probe = NoProbe
    /\ value = NaN /\ rounded = NaN /\ rerounded = NaN
    /\ items = [id \in {} |-> UndefinedItem]
    /\ added = <<>>
    /\ got = NoGet

\* testFunction: receivedOutput = summaryApi(input)
Process ==
    /\ pc = "ready"
    /\ LET out == summaryApi(database, largeData)
       IN  /\ result' = out.ret
           /\ database' = out.database
    /\ invoked' = handlerOf(largeData.action)
    /\ pc' = "done"
    /\ UNCHANGED <<value, rounded, rerounded, request, largeData, probe,
                   items, added, got>>

Next == Process

Spec == Init /\ [][Next]_vars

----------------------------------------------------------------------------
(* What the requests mean, read off the request and the items array *)

Called(action) == pc = "done" /\ largeData.action = action

catalogItem(id) ==
    sampleItems[CHOOSE i \in 1..Len(sampleItems) : sampleItems[i].id = id]

\* the id is written in plain decimal form and an item of the Catalog has it
inCatalog(row) ==
    row.plain /\ \E i \in 1..Len(sampleItems) : sampleItems[i].id = row.id

\* the price per kilogram of item id
kgPriceOf(id) ==
    IF catalogItem(id).unit = GRAM
      THEN Mul(catalogItem(id).unitPrice, Num(1000, 1))
    ELSE catalogItem(id).unitPrice

\* the weight of an entry in kilograms; only the unit "g" is scaled
kilogramsOf(entry) ==
    IF entry.unit = GRAM THEN Div(entry.quantity.val, Num(1000, 1))
    ELSE entry.quantity.val

RECURSIVE totalOf(_)
totalOf(entries) ==
    IF Len(entries) = 0 THEN Num(0, 1)
    ELSE Add(Mul(kgPriceOf(entries[1].id.id), kilogramsOf(entries[1])),
             totalOf(Tail(entries)))

idsInCatalog(entries) == \A i \in 1..Len(entries) : inCatalog(entries[i].id)

quantitiesWellFormed(entries) ==
    \A i \in 1..Len(entries) : entries[i].quantity.wellFormed

unitsWellFormed(entries) ==
    \A i \in 1..Len(entries) : entries[i].unit \in { KG, GRAM }

C6_ProcessRoutes ==
    pc = "done" =>
      /\ largeData.action = "calculate" =>
           /\ invoked = "handleCalculate"
           /\ result = handleCalculate(createDatabase.items, largeData.datas).ret
           /\ result.kind \in { "number", "throw" }
      /\ largeData.action = "query" =>
           /\ invoked = "handleQuery"
           /\ result = handleQuery(createDatabase.items, largeData.datas).ret
           /\ result.kind \in { "array", "throw" }
      /\ largeData.action \notin { "calculate", "query" } =>
           /\ invoked = "none"
           /\ result = Undefined

C6_Witness ==
    /\ Called("delete")
    /\ request.format = "calculate"
    /\ Len(request.entries) = 1
    /\ ~inCatalog(request.entries[1].id)
    /\ result = Undefined
    /\ invoked = "none"

\* C9: a calculate entry or a query id that names an id not in the Catalog
\* makes the call throw, wherever in the payload it stands: no total, no
\* partial array and no error value comes back.
C9_UnknownIdThrows ==
    ( /\ Called("calculate") \/ Called("query")
      /\ \E i \in 1..Len(request.entries) : ~inCatalog(request.entries[i].id) )
    => result = TypeError

C9_Witness ==
    /\ Called("calculate")
    /\ Len(request.entries) = 2
    /\ inCatalog(request.entries[1].id)
    /\ ~inCatalog(request.entries[2].id)
    /\ quantitiesWellFormed(request.entries)
    /\ unitsWellFormed(request.entries)
    /\ result = TypeError

\* C10 as claimed: a calculate payload with an entry whose unit is neither
\* "kg" nor "g" never returns an ordinary numeric total.
C10_OtherUnitFails ==
    ( /\ Called("calculate")
      /\ ~unitsWellFormed(request.entries) )
    => ~(result.kind = "number" /\ IsNum(result.num))

\* C10 as amended: a unit token other than "g" ("G", "lb", "", a missing
\* third field) is taken as kilograms; with ids in the Catalog and numeric
\* quantities, calculate returns the ordinary total of the entries.
C10_OtherUnitIsKilograms ==
    ( /\ Called("calculate")
      /\ ~unitsWellFormed(request.entries)
      /\ idsInCatalog(request.entries)
      /\ quantitiesWellFormed(request.entries) )
    => /\ result.kind = "number"
       /\ IsNum(result.num)
       /\ result.num = preciseRound(totalOf(request.entries))

C10_Witness ==
    /\ Called("calculate")
    /\ Len(request.entries) = 1
    /\ request.entries[1].unit = <<"l", "b">>
    /\ request.entries[1].id.tok = <<"1">>
    /\ request.entries[1].quantity.tok = <<"2">>
    /\ result = NumberResult(Num(29, 10))

----------------------------------------------------------------------------
(* preciseRound on its own: an argument, its rounding, the rounding of that *)

MaxThousandths == 300   \* arguments range over -0.300 .. 0.300 in steps of 0.001

roundArguments == { Num(t, 1000) : t \in (-MaxThousandths)..MaxThousandths }

InitRound ==
    /\ pc = "round"
    /\ value \in roundArguments
    /\ rounded = NaN
    /\ rerounded = NaN
    /\ database = createDatabase.items
    /\ request = NoRequest
    /\ largeData = NoEnvelope
    /\ result = NotCalled
    /\ invoked = "none"
    /\ probe = NoProbe
    /\ items = [id \in {} |-> UndefinedItem]
    /\ added = <<>>
    /\ got = NoGet

Round ==
    /\ pc = "round"
    /\ rounded' = preciseRound(value)
    /\ pc' = "rounded"
    /\ UNCHANGED <<value, rerounded, database, request, largeData, result,
                   invoked, probe, items, added, got>>

RoundAgain ==
    /\ pc = "rounded"
    /\ rerounded' = preciseRound(rounded)
    /\ pc' = "rerounded"
    /\ UNCHANGED <<value, rounded, database, request, largeData, result,
                   invoked, probe, items, added, got>>

NextRound == Round \/ RoundAgain

SpecRound == InitRound /\ [][NextRound]_vars

\* value * 100 rounded to the nearest integer, a half going up
centsOf(x) == (x.n * 100) \div x.d + (IF 2 * ((x.n * 100) % x.d) >= x.d THEN 1 ELSE 0)

\* the table of the rounding rule on an integer number of cents
tableOf(cents) ==
    CASE cents % 10 \in { 1, 2 } -> (cents \div 10) * 10
      [] cents % 10 \in { 3, 4, 6, 7 } -> (cents \div 10) * 10 + 5
      [] cents % 10 \in { 8, 9 } -> ((cents \div 10) + 1) * 10
      [] OTHER -> cents

\* C2: for every argument, preciseRound returns the table's value for
\* cents = round(value * 100) and lastDigit = cents mod 10, which is the
\* multiple of 5 cents nearest to cents.
C2_RoundingTable ==
    pc # "round" =>
      /\ rounded = Num(tableOf(centsOf(value)), 100)
      /\ tableOf(centsOf(value)) % 5 = 0
      /\ Abs(tableOf(centsOf(value)) - centsOf(value)) <= 2

\* C3: for every argument, negative ones included, the value preciseRound
\* returns is a whole number of cents divisible by 5.
C3_MultipleOfFiveCents ==
    pc # "round" =>
      LET cents == Mul(rounded, Num(100, 1))
      IN  IsNum(cents) /\ cents.d = 1 /\ cents.n % 5 = 0

\* C4: preciseRound(preciseRound(x)) = preciseRound(x) for every x.
C4_Idempotent == pc = "rerounded" => rerounded = rounded

C4_Witness ==
    /\ pc = "rerounded"
    /\ value = Num(18, 100)
    /\ rounded = Num(20, 100)
    /\ rerounded = rounded

----------------------------------------------------------------------------
(* A session: summaryApi called again and again on the one database *)

sessionCalls ==
    { c \in calls :
        \/ /\ c.action \in { "calculate", "query" }
           /\ c.request.entries \in { <<>>, test1, test2 }
        \/ /\ c.action \in { "calculate", "delete" }
           /\ c.request.format = "calculate"
           /\ c.request.entries \in
                { <<e>> : e \in { x \in coreEntries : x.quantity.tok = <<"2">> } }
        \/ /\ c.action \in { "query", "delete" }
           /\ c.request.format = "query"
           /\ Len(c.request.entries) = 1 }

InitSession ==
    /\ pc = "idle"
    /\ database = createDatabase.items
    /\ request = NoRequest
    /\ largeData = NoEnvelope
    /\ result = NotCalled
    /\ invoked = "none"
    /\ probe = NoProbe
    /\ value = NaN /\ rounded = NaN /\ rerounded = NaN
    /\ items = [id \in {} |-> UndefinedItem]
    /\ added = <<>>
    /\ got = NoGet

\* one more summaryApi(input); the probe keeps an earlier call or takes this one
Call ==
    \E c \in sessionCalls, keep \in BOOLEAN :
      LET out == summaryApi(database, Envelope(c))
      IN  /\ request' = c.request
          /\ largeData' = Envelope(c)
          /\ result' = out.ret
          /\ database' = out.database
          /\ invoked' = handlerOf(c.action)
          /\ probe' = IF keep /\ probe # NoProbe THEN probe
                      ELSE [envelope |-> Envelope(c), result |-> out.ret]
          /\ pc' = IF keep /\ probe # NoProbe THEN "compared" ELSE "called"
          /\ UNCHANGED <<value, rounded, rerounded, items, added, got>>

NextSession == Call

SpecSession == InitSession /\ [][NextSession]_vars

\* C8: no sequence of calls, failing ones and unrecognized actions included,
\* changes the Catalog, and an envelope submitted again gets the result it got
\* before.
C8_CatalogUnchanged ==
    /\ database = createDatabase.items
    /\ (pc = "compared" /\ probe.envelope = largeData) => probe.result = result

C8_Witness ==
    /\ pc = "compared"
    /\ probe.envelope = largeData
    /\ largeData.action = "query"
    /\ largeData.datas = <<"3">>
    /\ result.kind = "array"
    /\ probe.result = result

----------------------------------------------------------------------------
(* DatabaseManager of README.md: a Map from id to Item *)

MaxAdds == 3   \* items given to addItem in one run, bulkAdd's included
MaxBulk == 2   \* length of the array given to one bulkAdd

\* a faulty variant: an id already present keeps its item
addItemKeepsFirst(map, item) ==
    IF item.id \in DOMAIN map THEN map
    ELSE [id \in DOMAIN map \cup { item.id } |->
            IF id = item.id THEN item ELSE map[id]]

\* this.items.set(item.id, item)
addItem(map, item) ==
    [id \in DOMAIN map \cup { item.id } |-> IF id = item.id THEN item ELSE map[id]]

\* this.items.get(id)
getItem(map, id) == IF id \in DOMAIN map THEN map[id] ELSE UndefinedItem

\* items.forEach((item) => this.addItem(item))
RECURSIVE bulkAdd(_, _)
bulkAdd(map, list) ==
    IF list = <<>> THEN map
    ELSE bulkAdd(addItem(map, list[1]), Tail(list))

\* the items a run adds: two different items for each of two ids
itemPool ==
    { Item(1, "item1", Num(145, 100), KG), Item(1, "item1b", Num(235, 100), GRAM),
      Item(2, "item2", Num(123, 100), KG), Item(2, "item2b", Num(1, 1), GRAM) }

\* the ids a run asks for: the pool's, and two that are never added
askedIds == { 0, 1, 2, 3 }

InitCatalog ==
    /\ pc = "empty"
    /\ items = [id \in {} |-> UndefinedItem]
    /\ added = <<>>
    /\ got = NoGet
    /\ database = createDatabase.items
    /\ request = NoRequest
    /\ largeData = NoEnvelope
    /\ result = NotCalled
    /\ invoked = "none"
    /\ probe = NoProbe
    /\ value = NaN /\ rounded = NaN /\ rerounded = NaN

AddItem ==
    \E item \in itemPool :
      /\ Len(added) < MaxAdds
      /\ items' = addItem(items, item)
      /\ added' = Append(added, item)
      /\ pc' = "added"
      /\ UNCHANGED <<value, rounded, rerounded, database, request, largeData,
                     result, invoked, probe, got>>

BulkAdd ==
    \E list \in SeqsUpTo(itemPool, 0, MaxBulk) :
      /\ Len(added) + Len(list) <= MaxAdds
      /\ items' = bulkAdd(items, list)
      /\ added' = added \o list
      /\ pc' = "added"
      /\ UNCHANGED <<value, rounded, rerounded, database, request, largeData,
                     result, invoked, probe, got>>

GetItem ==
    \E id \in askedIds :
      /\ got' = [id |-> id, ret |-> getItem(items, id)]
      /\ pc' = "got"
      /\ UNCHANGED <<value, rounded, rerounded, database, request, largeData,
                     result, invoked, probe, items, added>>

NextCatalog == AddItem \/ BulkAdd \/ GetItem

SpecCatalog == InitCatalog /\ [][NextCatalog]_vars

\* the positions in the run's additions of the items with this id
addedAt(id) == { i \in 1..Len(added) : added[i].id = id }

\* C7: after any adds and bulkAdds, getItem(id) returns the item added last
\* with that id, and undefined (no throw) when none was added.
C7_GetReturnsLastAdded ==
    pc = "got" =>
      IF addedAt(got.id) = {} THEN got.ret = UndefinedItem
      ELSE got.ret = added[CHOOSE i \in addedAt(got.id) :
                             \A j \in addedAt(got.id) : j <= i]

C7_Witness ==
    /\ pc = "got"
    /\ Len(added) = 3
    /\ added[1].id = got.id
    /\ added[2].id = got.id
    /\ added[3].id # got.id
    /\ added[1] # added[2]
    /\ got.ret = added[2]

====
